---- MODULE Spec2Model ----
(***************************************************************************)
(* Model of the maplibre-native build orchestration scripts:               *)
(*   - scripts/build-maplibre.js and its earlier revision (part_000):      *)
(*     getPresetInfo (platform/architecture -> preset, generator, build    *)
(*     directory, extra cmake arguments) and the main build execution      *)
(*     (cleanup, configure, build, exit code);                             *)
(*   - the prepack script (part_001) and scripts/postpack.js, which move   *)
(*     maplibre-native/.npmignore out of the way and back.                 *)
(*                                                                         *)
(* JavaScript strings that the scripts compute with (paths, preset names,  *)
(* generator names) are sequences of one-character strings, so that        *)
(* String.replace, startsWith, includes, toLowerCase and path.join are     *)
(* modelled by what they do.                                               *)
(***************************************************************************)
EXTENDS Integers, Sequences, FiniteSets, TLC

VARIABLES
    script,         \* which revision of the build script runs
    platform,       \* process.platform
    arch,           \* process.arch
    manifest,       \* the content of maplibre-native/CMakePresets.json; it is not
                    \* written while the script runs, so require's module cache
                    \* (second read of the Visual Studio branch) returns the same data
    buildDirExists, \* fs.existsSync(buildDir): a directory is at the resolved path
    pc,             \* position of the main build execution
    info,           \* the value returned by getPresetInfo (None before / on throw)
    warnings,       \* console.warn calls, in order
    log,            \* side effects in order: manifest reads and external commands
    devEnv,         \* what setupWindowsDevEnvironment did to process.env
    configureCommand, \* the configure command handed to execSync
    buildCommand,   \* the build command handed to execSync
    toolStatus,     \* exit status of the external command that failed (None if none)
    thrown,         \* the error caught by the main catch block ("none" if none)
    exitCode,       \* the exit code of the process (None while running)
    npmignore,      \* content of maplibre-native/.npmignore (None when absent)
    npmignoreBak,   \* content of maplibre-native/.npmignore.bak (None when absent)
    packLog         \* the helper runs so far: which helper, the files before, renamed or not

buildVars == <<script, platform, arch, manifest, buildDirExists, pc, info, warnings,
               log, devEnv, configureCommand, buildCommand, toolStatus, thrown, exitCode>>
packVars == <<npmignore, npmignoreBak, packLog>>
vars == <<buildVars, packVars>>

-----------------------------------------------------------------------------
(* Bounds of the model *)

\* longest configurePresets list of a manifest
MaxPresets == 1
\* largest exit status an external command returns
MaxExitCode == 2
\* number of helper runs (prepack / postpack) followed
MaxPackOps == 3

-----------------------------------------------------------------------------
(* JavaScript string operations on sequences of characters *)

Last(s) == s[Len(s)]

\* String.prototype.startsWith
StartsWith(s, p) == Len(p) <= Len(s) /\ SubSeq(s, 1, Len(p)) = p

\* String.prototype.indexOf, 1-based; 0 when pat does not occur
IndexOf(s, pat) ==
    LET hits == { i \in 1..(Len(s) - Len(pat) + 1) : SubSeq(s, i, i + Len(pat) - 1) = pat }
    IN IF hits = {} THEN 0 ELSE CHOOSE i \in hits : \A j \in hits : i <= j

\* String.prototype.includes
Includes(s, pat) == IndexOf(s, pat) # 0

\* String.prototype.replace with a string pattern: only the first occurrence is
\* replaced.  (The replacement is taken literally: the source directories of the
\* model hold no "$", so no replacement pattern such as $& applies.)
Replace(s, pat, rep) ==
    LET i == IndexOf(s, pat)
    IN IF i = 0 THEN s
       ELSE SubSeq(s, 1, i - 1) \o rep \o SubSeq(s, i + Len(pat), Len(s))

UpperCase == <<"A","B","C","D","E","F","G","H","I","J","K","L","M",
               "N","O","P","Q","R","S","T","U","V","W","X","Y","Z">>
LowerCase == <<"a","b","c","d","e","f","g","h","i","j","k","l","m",
               "n","o","p","q","r","s","t","u","v","w","x","y","z">>

LowerChar(c) ==
    IF \E i \in 1..Len(UpperCase) : UpperCase[i] = c
    THEN LowerCase[CHOOSE i \in 1..Len(UpperCase) : UpperCase[i] = c]
    ELSE c

\* String.prototype.toLowerCase
ToLowerCase(s) == [i \in 1..Len(s) |-> LowerChar(s[i])]

\* Array.prototype.join over strings
RECURSIVE JoinWith(_, _)
JoinWith(parts, sep) ==
    IF Len(parts) = 0 THEN <<>>
    ELSE IF Len(parts) = 1 THEN parts[1]
    ELSE parts[1] \o sep \o JoinWith(Tail(parts), sep)

-----------------------------------------------------------------------------
(* The path module of the host: path.posix, or path.win32 on win32 *)

IsWin(p) == p = "win32"

\* path.sep
Sep(p) == IF IsWin(p) THEN "\\" ELSE "/"

\* isPathSeparator / isPosixPathSeparator
IsPathSeparator(p, c) == c = "/" \/ (IsWin(p) /\ c = "\\")

\* isWindowsDeviceRoot
IsWindowsDeviceRoot(c) ==
    \E i \in 1..Len(UpperCase) : UpperCase[i] = c \/ LowerCase[i] = c

\* the segments of a path between separators (empty segments included)
RECURSIVE Segments(_, _, _)
Segments(p, s, cur) ==
    IF Len(s) = 0 THEN <<cur>>
    ELSE IF IsPathSeparator(p, s[1]) THEN <<cur>> \o Segments(p, Tail(s), <<>>)
    ELSE Segments(p, Tail(s), Append(cur, s[1]))

\* normalizeString: resolves "." and ".." segments, drops empty segments
RECURSIVE NormalizeSegs(_, _, _)
NormalizeSegs(segs, allowAboveRoot, res) ==
    IF Len(segs) = 0 THEN res
    ELSE LET seg == segs[1]
             rest == Tail(segs)
         IN IF seg = <<>> \/ seg = <<".">> THEN NormalizeSegs(rest, allowAboveRoot, res)
            ELSE IF seg = <<".", ".">>
            THEN IF Len(res) > 0 /\ Last(res) # <<".", ".">>
                 THEN NormalizeSegs(rest, allowAboveRoot, SubSeq(res, 1, Len(res) - 1))
                 ELSE IF allowAboveRoot
                 THEN NormalizeSegs(rest, allowAboveRoot, Append(res, seg))
                 ELSE NormalizeSegs(rest, allowAboveRoot, res)
            ELSE NormalizeSegs(rest, allowAboveRoot, Append(res, seg))

NormalizeString(p, s, allowAboveRoot) ==
    JoinWith(NormalizeSegs(Segments(p, s, <<>>), allowAboveRoot, <<>>), <<Sep(p)>>)

\* path.posix.normalize
PosixNormalize(s) ==
    IF Len(s) = 0 THEN <<".">>
    ELSE LET isAbsolute == s[1] = "/"
             trailingSeparator == Last(s) = "/"
             body == NormalizeString("posix", s, ~isAbsolute)
         IN IF Len(body) = 0
            THEN (IF isAbsolute THEN <<"/">>
                  ELSE IF trailingSeparator THEN <<".", "/">> ELSE <<".">>)
            ELSE (IF isAbsolute THEN <<"/">> ELSE <<>>) \o body
                 \o (IF trailingSeparator THEN <<"/">> ELSE <<>>)

\* path.win32.normalize, for paths with a drive letter or no device
\* (UNC paths are outside the model: no path of the model starts with two separators)
Win32Normalize(s) ==
    IF Len(s) = 0 THEN <<".">>
    ELSE IF Len(s) = 1 THEN (IF s[1] = "/" THEN <<"\\">> ELSE s)
    ELSE
      LET sepFirst == IsPathSeparator("win32", s[1])
          hasDevice == ~sepFirst /\ IsWindowsDeviceRoot(s[1]) /\ s[2] = ":"
          device == IF hasDevice THEN SubSeq(s, 1, 2) ELSE <<>>
          isAbsolute == sepFirst
                        \/ (hasDevice /\ Len(s) > 2 /\ IsPathSeparator("win32", s[3]))
          rootEnd == IF sepFirst THEN 1
                     ELSE IF hasDevice THEN (IF isAbsolute THEN 3 ELSE 2)
                     ELSE 0
          tail0 == IF rootEnd < Len(s)
                   THEN NormalizeString("win32", SubSeq(s, rootEnd + 1, Len(s)), ~isAbsolute)
                   ELSE <<>>
          tail1 == IF Len(tail0) = 0 /\ ~isAbsolute THEN <<".">> ELSE tail0
          tail == IF Len(tail1) > 0 /\ IsPathSeparator("win32", Last(s))
                  THEN Append(tail1, "\\") ELSE tail1
      IN device \o (IF isAbsolute THEN <<"\\">> ELSE <<>>) \o tail

\* path.join(a, b)
PathJoin(p, a, b) ==
    LET parts == SelectSeq(<<a, b>>, LAMBDA x : Len(x) > 0)
        joined == JoinWith(parts, <<Sep(p)>>)
    IN IF Len(parts) = 0 THEN <<".">>
       ELSE IF IsWin(p) THEN Win32Normalize(joined) ELSE PosixNormalize(joined)

-----------------------------------------------------------------------------
(* Optional values: null / undefined is None, a value v is Some(v) *)

None == <<>>
Some(v) == <<v>>
IsSome(o) == Len(o) = 1
Get(o) == o[1]

-----------------------------------------------------------------------------
(* String literals of the scripts *)

macos_metal_node == <<"m","a","c","o","s","-","m","e","t","a","l","-","n","o","d","e">>
linux_opengl_node == <<"l","i","n","u","x","-","o","p","e","n","g","l","-","n","o","d","e">>
windows_arm64_opengl_node ==
    <<"w","i","n","d","o","w","s","-","a","r","m","6","4","-",
      "o","p","e","n","g","l","-","n","o","d","e">>
windows_opengl_node ==
    <<"w","i","n","d","o","w","s","-","o","p","e","n","g","l","-","n","o","d","e">>

Ninja == <<"N","i","n","j","a">>
VisualStudio17 ==
    <<"V","i","s","u","a","l"," ","S","t","u","d","i","o"," ","1","7"," ","2","0","2","2">>

\* '${sourceDir}', the pattern build-maplibre.js replaces
SourceDirPlaceholder == <<"$","{","s","o","u","r","c","e","D","i","r","}">>
\* '$', the pattern the earlier revision replaces
DollarPattern == <<"$">>
\* 'build-'
BuildPrefix == <<"b","u","i","l","d","-">>

TripletArm64 == "-DVCPKG_TARGET_TRIPLET=arm64-windows"
TripletX64 == "-DVCPKG_TARGET_TRIPLET=x64-windows"
SharedLibsOn == "-DBUILD_SHARED_LIBS=ON"

\* the two revisions of the build script
BuildMaplibre == "build-maplibre.js"
EarlierRevision == "part_000"
Scripts == {BuildMaplibre, EarlierRevision}

-----------------------------------------------------------------------------
(* The host: where the package is installed, and the native source directory *)

\* __dirname of the build script: <package>/scripts
ScriptDirname(p) ==
    IF IsWin(p) THEN <<"C",":","\\","w","\\","s","c","r","i","p","t","s">>
    ELSE <<"/","w","/","s","c","r","i","p","t","s">>

\* path.resolve(__dirname, '../maplibre-native'); __dirname is absolute, so the
\* result is the normalized join
maplibreNativeSourceDir(p) ==
    PathJoin(p, ScriptDirname(p),
             <<".",".","/","m","a","p","l","i","b","r","e","-","n","a","t","i","v","e">>)

-----------------------------------------------------------------------------
(* The preset manifest, maplibre-native/CMakePresets.json *)

\* binaryDir values of a configure preset: not given, empty, the usual template,
\* a relative directory without placeholder
BinaryDirs ==
    { None,
      Some(<<>>),
      Some(SourceDirPlaceholder \o <<"/","b","u","i","l","d">>),
      Some(<<"b","u","i","l","d">>) }

\* cacheVariables.CMAKE_BUILD_TYPE values: not given, empty, Debug
BuildTypes == { None, Some(""), Some("Debug") }

\* names of the configure presets a manifest of the model may hold
ManifestNames == { linux_opengl_node, windows_arm64_opengl_node }

PresetEntries ==
    [ name : ManifestNames, binaryDir : BinaryDirs, buildType : BuildTypes ]

PresetLists == UNION { [1..n -> PresetEntries] : n \in 0..MaxPresets }

\* absent: no file (require throws); invalid: the file does not parse (require
\* throws); noPresets: it parses to an object without configurePresets;
\* ok: it parses and configurePresets is the list
Manifests ==
    { [kind |-> k, presets |-> <<>>] : k \in {"absent", "invalid", "noPresets"} }
    \cup { [kind |-> "ok", presets |-> l] : l \in PresetLists }

\* require(cmakePresetsPath) throws
RequireThrows(m) == m.kind \in {"absent", "invalid"}

\* presetsData.configurePresets.find(...) throws a TypeError: configurePresets is undefined
\* (the entries of a configurePresets list are objects with string fields in this model)
FindThrows(m) == m.kind = "noPresets"

\* presetsData.configurePresets.find(p => p.name === presetName): the first match
FindPreset(m, presetName) ==
    LET hits == { i \in 1..Len(m.presets) : m.presets[i].name = presetName }
    IN IF hits = {} THEN None
       ELSE Some(m.presets[CHOOSE i \in hits : \A j \in hits : i <= j])

-----------------------------------------------------------------------------
(* getPresetInfo *)

\* faulty variant: the win32 branch does not look at the architecture
PresetMapping_IgnoreArch(sc, p, a) ==
    IF p = "darwin"
    THEN [presetName |-> macos_metal_node, generator |-> Ninja, cmakeArgs |-> <<>>]
    ELSE IF p = "linux"
    THEN [presetName |-> linux_opengl_node, generator |-> Ninja, cmakeArgs |-> <<>>]
    ELSE IF p = "win32"
    THEN [presetName |-> windows_opengl_node, generator |-> Ninja,
          cmakeArgs |-> IF sc = BuildMaplibre THEN <<TripletX64, SharedLibsOn>>
                        ELSE <<TripletX64>>]
    ELSE [presetName |-> <<>>, generator |-> <<>>, cmakeArgs |-> <<>>]

\* faulty variant: the arm64 branch pushes the x64 triplet
PresetMapping_WrongTriplet(sc, p, a) ==
    IF p = "darwin"
    THEN [presetName |-> macos_metal_node, generator |-> Ninja, cmakeArgs |-> <<>>]
    ELSE IF p = "linux"
    THEN [presetName |-> linux_opengl_node, generator |-> Ninja, cmakeArgs |-> <<>>]
    ELSE IF p = "win32" /\ a = "arm64"
    THEN [presetName |-> windows_arm64_opengl_node, generator |-> VisualStudio17,
          cmakeArgs |-> IF sc = BuildMaplibre THEN <<TripletX64, SharedLibsOn>>
                        ELSE <<TripletX64>>]
    ELSE IF p = "win32" /\ a = "x64"
    THEN [presetName |-> windows_opengl_node, generator |-> Ninja,
          cmakeArgs |-> IF sc = BuildMaplibre THEN <<TripletX64, SharedLibsOn>>
                        ELSE <<TripletX64>>]
    ELSE [presetName |-> <<>>, generator |-> <<>>, cmakeArgs |-> <<>>]

\* faulty variant: any other platform silently gets the Linux preset
PresetMapping_DefaultLinux(sc, p, a) ==
    IF p = "darwin"
    THEN [presetName |-> macos_metal_node, generator |-> Ninja, cmakeArgs |-> <<>>]
    ELSE IF p = "win32" /\ a = "arm64"
    THEN [presetName |-> windows_arm64_opengl_node, generator |-> VisualStudio17,
          cmakeArgs |-> IF sc = BuildMaplibre THEN <<TripletArm64, SharedLibsOn>>
                        ELSE <<TripletArm64>>]
    ELSE IF p = "win32" /\ a = "x64"
    THEN [presetName |-> windows_opengl_node, generator |-> Ninja,
          cmakeArgs |-> IF sc = BuildMaplibre THEN <<TripletX64, SharedLibsOn>>
                        ELSE <<TripletX64>>]
    ELSE [presetName |-> linux_opengl_node, generator |-> Ninja, cmakeArgs |-> <<>>]

\* the platform / architecture branches: presetName is <<>> (null) when no branch applies
PresetMapping(sc, p, a) ==
    IF p = "darwin"
    THEN [presetName |-> macos_metal_node, generator |-> Ninja, cmakeArgs |-> <<>>]
    ELSE IF p = "linux"
    THEN [presetName |-> linux_opengl_node, generator |-> Ninja, cmakeArgs |-> <<>>]
    ELSE IF p = "win32" /\ a = "arm64"
    THEN [presetName |-> windows_arm64_opengl_node, generator |-> VisualStudio17,
          cmakeArgs |-> IF sc = BuildMaplibre THEN <<TripletArm64, SharedLibsOn>>
                        ELSE <<TripletArm64>>]
    ELSE IF p = "win32" /\ a = "x64"
    THEN [presetName |-> windows_opengl_node, generator |-> Ninja,
          cmakeArgs |-> IF sc = BuildMaplibre THEN <<TripletX64, SharedLibsOn>>
                        ELSE <<TripletX64>>]
    ELSE [presetName |-> <<>>, generator |-> <<>>, cmakeArgs |-> <<>>]

\* path.join(maplibreNativeSourceDir, `build-${presetName}`)
SynthesizedBuildDir(p, presetName) ==
    PathJoin(p, maplibreNativeSourceDir(p), BuildPrefix \o presetName)

\* the substitution of the source directory into a (truthy) binaryDir
SubstituteBinaryDir(sc, p, binaryDir) ==
    IF sc = BuildMaplibre
    THEN Replace(binaryDir, SourceDirPlaceholder, maplibreNativeSourceDir(p))
    ELSE LET replaced == Replace(binaryDir, DollarPattern, maplibreNativeSourceDir(p))
         IN IF ~StartsWith(replaced, maplibreNativeSourceDir(p))
            THEN PathJoin(p, maplibreNativeSourceDir(p), binaryDir)
            ELSE replaced

\* faulty variant: the final default (if (!determinedBuildDir)) is missing
DetermineBuildDir_NoDefault(sc, p, m, presetName) ==
    IF RequireThrows(m) \/ FindThrows(m)
    THEN [dir |-> SynthesizedBuildDir(p, presetName), warnings |-> <<"binaryDir">>]
    ELSE LET configurePreset == FindPreset(m, presetName)
         IN [dir |-> IF IsSome(configurePreset) /\ IsSome(Get(configurePreset).binaryDir)
                        /\ Get(Get(configurePreset).binaryDir) # <<>>
                     THEN SubstituteBinaryDir(sc, p, Get(Get(configurePreset).binaryDir))
                     ELSE <<>>,
             warnings |-> <<>>]

\* the try / catch block and the final default: the directory and the warnings
DetermineBuildDir(sc, p, m, presetName) ==
    IF RequireThrows(m) \/ FindThrows(m)
    THEN [dir |-> SynthesizedBuildDir(p, presetName), warnings |-> <<"binaryDir">>]
    ELSE LET configurePreset == FindPreset(m, presetName)
             determinedBuildDir ==
                 IF IsSome(configurePreset) /\ IsSome(Get(configurePreset).binaryDir)
                    /\ Get(Get(configurePreset).binaryDir) # <<>>
                 THEN SubstituteBinaryDir(sc, p, Get(Get(configurePreset).binaryDir))
                 ELSE <<>>
         IN [dir |-> IF determinedBuildDir = <<>>
                     THEN SynthesizedBuildDir(p, presetName)
                     ELSE determinedBuildDir,
             warnings |-> <<>>]

\* faulty variant: require(cmakePresetsPath) is outside the try block, so a
\* manifest that cannot be loaded makes getPresetInfo throw
getPresetInfo_UncaughtRequire(sc, p, a, m) ==
    LET mapping == PresetMapping(sc, p, a)
    IN IF mapping.presetName = <<>>
       THEN [threw |-> TRUE, info |-> None, warnings |-> <<>>, readManifest |-> FALSE]
       ELSE IF RequireThrows(m)
       THEN [threw |-> TRUE, info |-> None, warnings |-> <<>>, readManifest |-> TRUE]
       ELSE LET d == DetermineBuildDir(sc, p, m, mapping.presetName)
            IN [threw |-> FALSE,
                info |-> Some([presetName |-> mapping.presetName,
                               buildDir |-> d.dir,
                               generator |-> mapping.generator,
                               cmakeArgs |-> mapping.cmakeArgs,
                               arch |-> a]),
                warnings |-> d.warnings,
                readManifest |-> TRUE]

\* getPresetInfo(): threw, or the returned object; the warnings it printed and
\* whether it read the manifest
getPresetInfo(sc, p, a, m) ==
    LET mapping == PresetMapping(sc, p, a)
    IN IF mapping.presetName = <<>>
       THEN [threw |-> TRUE, info |-> None, warnings |-> <<>>, readManifest |-> FALSE]
       ELSE LET d == DetermineBuildDir(sc, p, m, mapping.presetName)
            IN [threw |-> FALSE,
                info |-> Some([presetName |-> mapping.presetName,
                               buildDir |-> d.dir,
                               generator |-> mapping.generator,
                               cmakeArgs |-> mapping.cmakeArgs,
                               arch |-> a]),
                warnings |-> d.warnings,
                readManifest |-> TRUE]

-----------------------------------------------------------------------------
(* The build step's command, chosen from the generator *)

\* faulty variant: the build type is never taken from the manifest
VisualStudioBuildType_AlwaysRelease(m, presetName) ==
    IF RequireThrows(m) \/ FindThrows(m)
    THEN [buildType |-> "Release", warnings |-> <<"buildType">>]
    ELSE [buildType |-> "Release", warnings |-> <<>>]

\* the Visual Studio branch: cacheVariables.CMAKE_BUILD_TYPE of the preset entry,
\* 'Release' by default; the manifest is read again
VisualStudioBuildType(m, presetName) ==
    IF RequireThrows(m) \/ FindThrows(m)
    THEN [buildType |-> "Release", warnings |-> <<"buildType">>]
    ELSE LET configurePreset == FindPreset(m, presetName)
         IN [buildType |->
                 IF IsSome(configurePreset) /\ IsSome(Get(configurePreset).buildType)
                    /\ Get(Get(configurePreset).buildType) # ""
                 THEN Get(Get(configurePreset).buildType)
                 ELSE "Release",
             warnings |-> <<>>]

\* faulty variant: the generator is compared without toLowerCase()
BuildDispatch_CaseSensitive(m, i) ==
    LET g == i.generator
    IN IF Includes(g, <<"n","i","n","j","a">>)
       THEN [threw |-> "none",
             cmd |-> Some([tool |-> "ninja -C", dir |-> i.buildDir, config |-> None]),
             warnings |-> <<>>, readManifest |-> FALSE]
       ELSE IF Includes(g, <<"x","c","o","d","e">>)
       THEN [threw |-> "XcodeGenerator", cmd |-> None,
             warnings |-> <<>>, readManifest |-> FALSE]
       ELSE IF Includes(g, <<"v","i","s","u","a","l"," ","s","t","u","d","i","o">>)
       THEN LET bt == VisualStudioBuildType(m, i.presetName)
            IN [threw |-> "none",
                cmd |-> Some([tool |-> "cmake --build", dir |-> i.buildDir,
                              config |-> Some(bt.buildType)]),
                warnings |-> bt.warnings, readManifest |-> TRUE]
       ELSE IF Includes(g, <<"m","a","k","e","f","i","l","e","s">>)
       THEN [threw |-> "none",
             cmd |-> Some([tool |-> "make -C", dir |-> i.buildDir, config |-> None]),
             warnings |-> <<>>, readManifest |-> FALSE]
       ELSE [threw |-> "UnsupportedGenerator", cmd |-> None,
             warnings |-> <<>>, readManifest |-> FALSE]

\* the generator dispatch: the error thrown ("none" if none), the build command,
\* the warnings printed and whether the manifest was read
BuildDispatch(m, i) ==
    LET g == ToLowerCase(i.generator)
    IN IF Includes(g, <<"n","i","n","j","a">>)
       THEN [threw |-> "none",
             cmd |-> Some([tool |-> "ninja -C", dir |-> i.buildDir, config |-> None]),
             warnings |-> <<>>, readManifest |-> FALSE]
       ELSE IF Includes(g, <<"x","c","o","d","e">>)
       THEN [threw |-> "XcodeGenerator", cmd |-> None,
             warnings |-> <<>>, readManifest |-> FALSE]
       ELSE IF Includes(g, <<"v","i","s","u","a","l"," ","s","t","u","d","i","o">>)
       THEN LET bt == VisualStudioBuildType(m, i.presetName)
            IN [threw |-> "none",
                cmd |-> Some([tool |-> "cmake --build", dir |-> i.buildDir,
                              config |-> Some(bt.buildType)]),
                warnings |-> bt.warnings, readManifest |-> TRUE]
       ELSE IF Includes(g, <<"m","a","k","e","f","i","l","e","s">>)
       THEN [threw |-> "none",
             cmd |-> Some([tool |-> "make -C", dir |-> i.buildDir, config |-> None]),
             warnings |-> <<>>, readManifest |-> FALSE]
       ELSE [threw |-> "UnsupportedGenerator", cmd |-> None,
             warnings |-> <<>>, readManifest |-> FALSE]

-----------------------------------------------------------------------------
(* The main build execution *)

Platforms == {"darwin", "linux", "win32", "freebsd"}
Archs == {"x64", "arm64", "ia32"}
ExitCodes == 0..MaxExitCode

\* the cleanup command for the platform
RmCommand(p) == IF IsWin(p) THEN "rmdir /s /q" ELSE "rm -rf"

\* a log entry: the operation, whether the build directory existed when it
\* started, and its exit status
Event(op, status) == [op |-> op, dirExists |-> buildDirExists, status |-> status]

\* the environment of the external commands carries the vcpkg variables
VcpkgEnv == script = EarlierRevision /\ IsWin(platform)

PackIdle == npmignore = None /\ npmignoreBak = None /\ packLog = <<>>

Init ==
    /\ script \in Scripts
    /\ platform \in Platforms
    /\ arch \in Archs
    /\ manifest \in Manifests
    /\ buildDirExists \in BOOLEAN
    /\ pc = "start"
    /\ info = None
    /\ warnings = <<>>
    /\ log = <<>>
    /\ devEnv = "unset"
    /\ configureCommand = None
    /\ buildCommand = None
    /\ toolStatus = None
    /\ thrown = "none"
    /\ exitCode = None
    /\ PackIdle

\* faulty variant: the catch block exits with the failed command's status
Catch_PropagateStatus(error, status) ==
    /\ thrown' = error
    /\ toolStatus' = status
    /\ exitCode' = IF IsSome(status) THEN status ELSE Some(1)
    /\ pc' = "done"

\* catch (error) { console.error(...); process.exit(1); }
Catch(error, status) ==
    /\ thrown' = error
    /\ toolStatus' = status
    /\ exitCode' = Some(1)
    /\ pc' = "done"

\* const {...} = getPresetInfo();
Resolve ==
    /\ pc = "start"
    /\ LET r == getPresetInfo(script, platform, arch, manifest)
       IN /\ info' = r.info
          /\ warnings' = warnings \o r.warnings
          /\ log' = IF r.readManifest THEN Append(log, Event("readManifest", 0)) ELSE log
          /\ IF r.threw
             THEN Catch("UnsupportedPlatform", None)
             ELSE /\ pc' = IF script = BuildMaplibre /\ IsWin(platform)
                           THEN "setupVS" ELSE "cleanup"
                  /\ UNCHANGED <<thrown, toolStatus, exitCode>>
    /\ UNCHANGED <<script, platform, arch, manifest, buildDirExists, devEnv,
                   configureCommand, buildCommand, packVars>>

\* await setupWindowsDevEnvironment(arch): build-maplibre.js on win32 only.
\* inDevPrompt: VCINSTALLDIR and VSCMD_ARG_TGT_ARCH are set already;
\* found: a VsDevCmd.bat exists; status: its exit status (a failure is caught)
SetupWindowsDevEnvironment ==
    /\ pc = "setupVS"
    /\ \E inDevPrompt \in BOOLEAN, found \in BOOLEAN, status \in ExitCodes :
         IF inDevPrompt
         THEN /\ devEnv' = "alreadySet"
              /\ UNCHANGED <<log, warnings>>
         ELSE IF ~found
         THEN /\ devEnv' = "manualFallback"
              /\ warnings' = Append(warnings, "VsDevCmdNotFound")
              /\ UNCHANGED log
         ELSE /\ devEnv' = IF status = 0 THEN "captured" ELSE "failed"
              /\ log' = Append(log, Event("VsDevCmd.bat", status))
              /\ UNCHANGED warnings
    /\ pc' = "cleanup"
    /\ UNCHANGED <<script, platform, arch, manifest, buildDirExists, info,
                   configureCommand, buildCommand, toolStatus, thrown, exitCode, packVars>>

\* faulty variant: a failure of the cleanup command is ignored
Cleanup_IgnoreFailure ==
    /\ pc = "cleanup"
    /\ IF buildDirExists
       THEN \E status \in ExitCodes :
              /\ log' = Append(log, Event(RmCommand(platform), status))
              /\ buildDirExists' = (status # 0)
       ELSE UNCHANGED <<log, buildDirExists>>
    /\ pc' = "configure"
    /\ UNCHANGED <<script, platform, arch, manifest, info, warnings, devEnv,
                   configureCommand, buildCommand, thrown, toolStatus, exitCode, packVars>>

\* if (fs.existsSync(buildDir)) execSync(rmCommand) else skip
Cleanup ==
    /\ pc = "cleanup"
    /\ IF buildDirExists
       THEN \E status \in ExitCodes :
              /\ log' = Append(log, Event(RmCommand(platform), status))
              /\ IF status = 0
                 THEN /\ buildDirExists' = FALSE
                      /\ pc' = "configure"
                      /\ UNCHANGED <<thrown, toolStatus, exitCode>>
                 ELSE /\ Catch("CommandFailed", Some(status))
                      /\ UNCHANGED buildDirExists
       ELSE /\ pc' = "configure"
            /\ UNCHANGED <<log, buildDirExists, thrown, toolStatus, exitCode>>
    /\ UNCHANGED <<script, platform, arch, manifest, info, warnings, devEnv,
                   configureCommand, buildCommand, packVars>>

\* execSync(configureCommand): cmake creates the build directory when it succeeds
Configure ==
    /\ pc = "configure"
    /\ configureCommand' =
         Some([sourceDir |-> maplibreNativeSourceDir(platform),
               buildDir |-> Get(info).buildDir,
               preset |-> Get(info).presetName,
               args |-> Get(info).cmakeArgs,
               vcpkgEnv |-> VcpkgEnv])
    /\ \E status \in ExitCodes :
         /\ log' = Append(log, Event("configure", status))
         /\ IF status = 0
            THEN /\ buildDirExists' = TRUE
                 /\ pc' = "build"
                 /\ UNCHANGED <<thrown, toolStatus, exitCode>>
            ELSE /\ Catch("CommandFailed", Some(status))
                 /\ UNCHANGED buildDirExists
    /\ UNCHANGED <<script, platform, arch, manifest, info, warnings, devEnv,
                   buildCommand, packVars>>

\* the generator dispatch and execSync(buildCommand)
Build ==
    /\ pc = "build"
    /\ LET d == BuildDispatch(manifest, Get(info))
           read == IF d.readManifest THEN Append(log, Event("readManifest", 0)) ELSE log
       IN /\ warnings' = warnings \o d.warnings
          /\ buildCommand' = d.cmd
          /\ IF d.threw # "none"
             THEN /\ log' = read
                  /\ Catch(d.threw, None)
             ELSE \E status \in ExitCodes :
                    /\ log' = Append(read, Event("build", status))
                    /\ IF status = 0
                       THEN /\ pc' = "done"
                            /\ exitCode' = Some(0)
                            /\ UNCHANGED <<thrown, toolStatus>>
                       ELSE Catch("CommandFailed", Some(status))
    /\ UNCHANGED <<script, platform, arch, manifest, buildDirExists, info, devEnv,
                   configureCommand, packVars>>

Next == Resolve \/ SetupWindowsDevEnvironment \/ Cleanup \/ Configure \/ Build

Spec == Init /\ [][Next]_vars

-----------------------------------------------------------------------------
(* The packaging helpers: prepack (part_001) and scripts/postpack.js *)

FileContents == {"rules-a", "rules-b"}
Files == {None} \cup {Some(c) : c \in FileContents}

\* the two paths the helpers touch
PackFs == [npmignore |-> npmignore, npmignoreBak |-> npmignoreBak]

\* faulty variant: the rename is done without the existence check
Prepack_Unconditional(fs) ==
    [npmignore |-> None, npmignoreBak |-> fs.npmignore]

\* prepack: if (fs.existsSync(npmignorePath)) fs.renameSync(npmignorePath, npmignoreBackupPath)
Prepack(fs) ==
    IF IsSome(fs.npmignore)
    THEN [npmignore |-> None, npmignoreBak |-> fs.npmignore]
    ELSE fs

\* postpack: if (fs.existsSync(npmignoreBackupPath)) fs.renameSync(npmignoreBackupPath, npmignorePath)
Postpack(fs) ==
    IF IsSome(fs.npmignoreBak)
    THEN [npmignore |-> fs.npmignoreBak, npmignoreBak |-> None]
    ELSE fs

BuildIdle ==
    /\ script = BuildMaplibre
    /\ platform = "linux"
    /\ arch = "x64"
    /\ manifest = [kind |-> "absent", presets |-> <<>>]
    /\ buildDirExists = FALSE
    /\ pc = "idle"
    /\ info = None
    /\ warnings = <<>>
    /\ log = <<>>
    /\ devEnv = "unset"
    /\ configureCommand = None
    /\ buildCommand = None
    /\ toolStatus = None
    /\ thrown = "none"
    /\ exitCode = None

PackInit ==
    /\ npmignore \in Files
    /\ npmignoreBak \in Files
    /\ packLog = <<>>
    /\ BuildIdle

RunPrepack ==
    /\ Len(packLog) < MaxPackOps
    /\ npmignore' = Prepack(PackFs).npmignore
    /\ npmignoreBak' = Prepack(PackFs).npmignoreBak
    /\ packLog' = Append(packLog, [op |-> "prepack", before |-> PackFs,
                                   renamed |-> IsSome(npmignore)])
    /\ UNCHANGED buildVars

RunPostpack ==
    /\ Len(packLog) < MaxPackOps
    /\ npmignore' = Postpack(PackFs).npmignore
    /\ npmignoreBak' = Postpack(PackFs).npmignoreBak
    /\ packLog' = Append(packLog, [op |-> "postpack", before |-> PackFs,
                                   renamed |-> IsSome(npmignoreBak)])
    /\ UNCHANGED buildVars

PackNext == RunPrepack \/ RunPostpack

PackSpec == PackInit /\ [][PackNext]_vars

-----------------------------------------------------------------------------
(* Properties: the mapping table of the specification, stated on its own *)

Supported(p, a) ==
    p \in {"darwin", "linux"} \/ (p = "win32" /\ a \in {"arm64", "x64"})

TablePreset(p, a) ==
    CASE p = "darwin" -> macos_metal_node
      [] p = "linux" -> linux_opengl_node
      [] p = "win32" /\ a = "arm64" -> windows_arm64_opengl_node
      [] p = "win32" /\ a = "x64" -> windows_opengl_node

TableTool(p, a) ==
    IF p = "win32" /\ a = "arm64" THEN VisualStudio17 ELSE Ninja

TableArgs(p, a) ==
    CASE p \in {"darwin", "linux"} -> <<>>
      [] p = "win32" /\ a = "arm64" -> <<TripletArm64>>
      [] p = "win32" /\ a = "x64" -> <<TripletX64>>

\* getPresetInfo has been called
Called == pc \notin {"start", "idle"}
\* getPresetInfo has returned a Resolution Result
Resolved == Called /\ IsSome(info)

\* <sourceDir><sep>build-<presetName>, written out
BuildDashPreset(p, a) ==
    maplibreNativeSourceDir(p) \o <<Sep(p)>> \o BuildPrefix \o TablePreset(p, a)

\* the entry of the manifest for the platform's preset, None when the manifest
\* has none
TableEntry ==
    IF manifest.kind = "ok" /\ Supported(platform, arch)
    THEN FindPreset(manifest, TablePreset(platform, arch))
    ELSE None

\* the entry gives a non-empty binaryDir
EntryHasBinaryDir ==
    /\ IsSome(TableEntry)
    /\ IsSome(Get(TableEntry).binaryDir)
    /\ Get(Get(TableEntry).binaryDir) # <<>>

\* positions of an operation in the log
At(op) == { i \in DOMAIN log : log[i].op = op }
RmAt == At("rm -rf") \cup At("rmdir /s /q")

-----------------------------------------------------------------------------

\* C1: for every (OS family, architecture) pair of the mapping table, the
\* Resolution Result holds exactly the table's preset name and build tool
\* (generator); resolution of such a pair always returns a result.
C1_PresetAndTool ==
    (Called /\ Supported(platform, arch)) =>
        /\ IsSome(info)
        /\ Get(info).presetName = TablePreset(platform, arch)
        /\ Get(info).generator = TableTool(platform, arch)

C1_Witness ==
    /\ Resolved
    /\ platform = "win32" /\ arch = "arm64"
    /\ Get(info).presetName = windows_arm64_opengl_node
    /\ Get(info).generator = VisualStudio17

\* C2 as stated: the extra arguments are exactly the table's, no further
\* argument added.
C2_Original ==
    Resolved => Get(info).cmakeArgs = TableArgs(platform, arch)

\* C2 amended: the extra arguments are empty on macOS and Linux; on Windows
\* they start with the table's target-triplet argument, which build-maplibre.js
\* follows with -DBUILD_SHARED_LIBS=ON and the earlier revision with nothing.
C2_ExtraArgs ==
    Resolved =>
        Get(info).cmakeArgs =
            TableArgs(platform, arch)
            \o (IF IsWin(platform) /\ script = BuildMaplibre
                THEN <<SharedLibsOn>> ELSE <<>>)

C2_Witness ==
    /\ Resolved
    /\ script = BuildMaplibre
    /\ platform = "win32" /\ arch = "x64"
    /\ Get(info).cmakeArgs = <<TripletX64, SharedLibsOn>>

\* C3: for a pair that is not in the mapping table the run ends in the
\* unsupported-platform error with exit code 1, before the manifest is read,
\* before any directory is deleted and before any external process is started;
\* no preset is picked.
C3_UnsupportedFailsFast ==
    (Called /\ ~Supported(platform, arch)) =>
        /\ pc = "done"
        /\ thrown = "UnsupportedPlatform"
        /\ exitCode = Some(1)
        /\ info = None
        /\ log = <<>>
        /\ devEnv = "unset"
        /\ configureCommand = None /\ buildCommand = None

C3_Witness ==
    /\ pc = "done"
    /\ script = BuildMaplibre
    /\ platform = "win32" /\ arch = "ia32"
    /\ buildDirExists
    /\ thrown = "UnsupportedPlatform"
    /\ exitCode = Some(1)

\* C4 as stated: when the manifest entry of the resolved preset gives a
\* binaryDir template with the ${sourceDir} placeholder, the resolved directory
\* is that template with ${sourceDir} replaced by the native source directory,
\* and no remainder of the placeholder is left in it.
C4_Original ==
    (Resolved /\ EntryHasBinaryDir
       /\ Includes(Get(Get(TableEntry).binaryDir), SourceDirPlaceholder)) =>
        /\ Get(info).buildDir =
               Replace(Get(Get(TableEntry).binaryDir), SourceDirPlaceholder,
                       maplibreNativeSourceDir(platform))
        /\ ~Includes(Get(info).buildDir, <<"{","s","o","u","r","c","e","D","i","r","}">>)

\* C5: when the manifest is absent or does not parse, resolution of a supported
\* platform returns <sourceDir>/build-<presetName>, a warning is recorded, and
\* the run goes on to cleanup and configure: it ends before configure only when
\* the cleanup command itself fails.
C5_ManifestUnavailable ==
    (Called /\ Supported(platform, arch) /\ manifest.kind \in {"absent", "invalid"}) =>
        /\ IsSome(info)
        /\ Get(info).buildDir = BuildDashPreset(platform, arch)
        /\ \E i \in DOMAIN warnings : warnings[i] = "binaryDir"
        /\ thrown # "UnsupportedPlatform"
        /\ pc \in {"build", "done"} =>
              \/ At("configure") # {}
              \/ \E i \in RmAt : log[i].status # 0

C5_Witness ==
    /\ pc = "build"
    /\ manifest.kind = "absent"
    /\ platform = "win32" /\ arch = "arm64"
    /\ Get(info).buildDir = BuildDashPreset(platform, arch)
    /\ warnings = <<"binaryDir">>
    /\ IsSome(configureCommand)

\* C6 as stated: when the manifest parses but has no entry for the preset, or an
\* entry without binaryDir, the default directory is used without aborting and a
\* warning is recorded; whenever the default directory is used a warning has
\* been recorded.
C6_Original ==
    /\ (Called /\ Supported(platform, arch) /\ manifest.kind = "ok"
          /\ ~EntryHasBinaryDir) =>
           /\ IsSome(info)
           /\ Get(info).buildDir = BuildDashPreset(platform, arch)
           /\ warnings # <<>>
    /\ (Resolved /\ Get(info).buildDir = BuildDashPreset(platform, arch)) =>
           warnings # <<>>

\* C6 amended: in that case the default directory is used without aborting and
\* resolution records no warning; resolution records its warning exactly when
\* reading the manifest throws (no file, no parse, no configurePresets list).
C6_SilentDefault ==
    /\ (Called /\ Supported(platform, arch) /\ manifest.kind = "ok"
          /\ ~EntryHasBinaryDir) =>
           /\ IsSome(info)
           /\ Get(info).buildDir = BuildDashPreset(platform, arch)
           /\ thrown # "UnsupportedPlatform"
           /\ \A i \in DOMAIN warnings : warnings[i] # "binaryDir"
    /\ Resolved =>
           ((\E i \in DOMAIN warnings : warnings[i] = "binaryDir")
               <=> manifest.kind # "ok")

C6_Witness ==
    /\ pc = "configure"
    /\ manifest.kind = "ok"
    /\ IsSome(TableEntry) /\ Get(TableEntry).binaryDir = None
    /\ Get(info).buildDir = BuildDashPreset(platform, arch)
    /\ warnings = <<>>

\* resolution, cleanup, configure and build all succeeded
AllSucceeded ==
    /\ IsSome(info)
    /\ \A i \in RmAt : log[i].status = 0
    /\ \E i \in At("configure") : log[i].status = 0
    /\ \E i \in At("build") : log[i].status = 0

\* C7 as stated: the process exits 0 exactly when every step succeeded, and when
\* the configure or build command exits with a non-zero status the process exits
\* with that same status.
C7_Original ==
    pc = "done" =>
        /\ (exitCode = Some(0)) <=> AllSucceeded
        /\ \A i \in At("configure") \cup At("build") :
               log[i].status # 0 => exitCode = Some(log[i].status)

\* C7 amended: the process exits 0 exactly when every step succeeded; when any
\* step fails (the configure or build command with whatever non-zero status
\* included) the process exits with code 1.
C7_ExitCode ==
    /\ pc # "done" => exitCode = None
    /\ pc = "done" =>
        /\ (exitCode = Some(0)) <=> AllSucceeded
        /\ ~AllSucceeded => exitCode = Some(1)
        /\ \A i \in At("configure") \cup At("build") :
               log[i].status # 0 =>
                   exitCode = Some(1) /\ toolStatus = Some(log[i].status)

C7_Witness ==
    /\ pc = "done"
    /\ \E i \in At("build") : log[i].status = 2
    /\ toolStatus = Some(2)
    /\ exitCode = Some(1)

\* C8: the steps happen in the order resolve, delete the pre-existing output
\* directory, configure, build: every external step comes after a successful
\* resolution; a directory that existed is deleted before configure starts;
\* configure starts only after a successful cleanup; build starts only after a
\* successful configure; each external step is invoked at most once; a failing
\* step is the last one and ends the run.
C8_StepOrder ==
    LET steps == RmAt \cup At("configure") \cup At("build")
    IN /\ Cardinality(RmAt) <= 1
       /\ Cardinality(At("configure")) <= 1
       /\ Cardinality(At("build")) <= 1
       /\ \A i \in steps : IsSome(info) /\ log[1].op = "readManifest" /\ i > 1
       /\ \A j \in At("configure") :
            /\ ~log[j].dirExists
            /\ \A i \in RmAt : i < j /\ log[i].status = 0
            /\ log[1].dirExists => RmAt # {}
       /\ \A k \in At("build") :
            \E j \in At("configure") : j < k /\ log[j].status = 0
       /\ \A i \in steps :
            log[i].status # 0 => i = Len(log) /\ pc = "done" /\ exitCode = Some(1)

C8_Witness ==
    /\ pc = "done"
    /\ exitCode = Some(0)
    /\ Len(log) >= 4
    /\ log[1].dirExists
    /\ RmAt # {} /\ At("configure") # {} /\ At("build") # {}

\* the build type the manifest gives for the platform's preset: the entry's
\* CMAKE_BUILD_TYPE when it gives one (an empty string gives none), else Release
ExpectedBuildType ==
    IF /\ IsSome(TableEntry)
       /\ IsSome(Get(TableEntry).buildType)
       /\ Get(Get(TableEntry).buildType) # ""
    THEN Get(Get(TableEntry).buildType)
    ELSE "Release"

\* the run came to the build step
BuildReached == pc = "done" /\ \E j \in At("configure") : log[j].status = 0

\* C9: on the Visual Studio generator path the build command's --config is the
\* manifest entry's CMAKE_BUILD_TYPE when the entry gives one, and Release when
\* the manifest is unreadable, the entry is missing or the attribute is absent;
\* reading it never aborts the run (the build command is always invoked); on the
\* Ninja path the manifest is read once, by resolution only, and the build
\* command carries no build type.
C9_BuildType ==
    Resolved =>
        IF Get(info).generator = VisualStudio17
        THEN BuildReached =>
                /\ IsSome(buildCommand)
                /\ Get(buildCommand).config = Some(ExpectedBuildType)
                /\ At("build") # {}
                /\ thrown \in {"none", "CommandFailed"}
                /\ Cardinality(At("readManifest")) = 2
        ELSE /\ Cardinality(At("readManifest")) = 1
             /\ IsSome(buildCommand) => Get(buildCommand).config = None

C9_Witness ==
    /\ BuildReached
    /\ platform = "win32" /\ arch = "arm64"
    /\ IsSome(TableEntry)
    /\ Get(TableEntry).buildType = Some("Debug")
    /\ Get(buildCommand).tool = "cmake --build"
    /\ Get(buildCommand).config = Some("Debug")

\* the files after the i-th helper run of packLog
After(i) == IF i < Len(packLog) THEN packLog[i + 1].before ELSE PackFs

\* C10: the hide helper changes nothing and renames nothing when .npmignore is
\* absent, the restore helper changes nothing and renames nothing when
\* .npmignore.bak is absent; running either helper twice in a row leaves the
\* state of running it once; from .npmignore present and no backup, hide then
\* restore puts the file back with no backup left.
C10_HelpersIdempotent ==
    /\ \A i \in DOMAIN packLog :
         /\ (packLog[i].op = "prepack" /\ packLog[i].before.npmignore = None) =>
                After(i) = packLog[i].before /\ ~packLog[i].renamed
         /\ (packLog[i].op = "postpack" /\ packLog[i].before.npmignoreBak = None) =>
                After(i) = packLog[i].before /\ ~packLog[i].renamed
    /\ \A i \in DOMAIN packLog :
         (i < Len(packLog) /\ packLog[i].op = packLog[i + 1].op) =>
             After(i + 1) = After(i)
    /\ \A i \in DOMAIN packLog :
         (/\ i < Len(packLog)
          /\ packLog[i].op = "prepack" /\ packLog[i + 1].op = "postpack"
          /\ IsSome(packLog[i].before.npmignore)
          /\ packLog[i].before.npmignoreBak = None) =>
             After(i + 1) = packLog[i].before

C10_Witness ==
    /\ Len(packLog) = 3
    /\ packLog[1].op = "prepack" /\ packLog[2].op = "postpack"
    /\ packLog[3].op = "postpack"
    /\ packLog[1].before = [npmignore |-> Some("rules-a"), npmignoreBak |-> None]
    /\ packLog[2].before = [npmignore |-> None, npmignoreBak |-> Some("rules-a")]
    /\ ~packLog[3].renamed
    /\ PackFs = [npmignore |-> Some("rules-a"), npmignoreBak |-> None]

\* C11: for every supported platform, once resolution and configure have
\* succeeded, exactly one build command is invoked, with the tool the resolved
\* generator implies: ninja -C <output dir> for Ninja (macOS, Linux, Windows
\* x64), cmake --build <output dir> --config <build type> for the Visual Studio
\* generator (Windows arm64); the Xcode, makefiles and unsupported-generator
\* branches are never taken.
C11_BuildTool ==
    /\ thrown \notin {"XcodeGenerator", "UnsupportedGenerator"}
    /\ IsSome(buildCommand) => Get(buildCommand).tool # "make -C"
    /\ (BuildReached /\ Supported(platform, arch)) =>
          /\ IsSome(buildCommand)
          /\ Cardinality(At("build")) = 1
          /\ Get(buildCommand).dir = Get(info).buildDir
          /\ IF TableTool(platform, arch) = Ninja
             THEN /\ Get(buildCommand).tool = "ninja -C"
                  /\ Get(buildCommand).config = None
             ELSE /\ Get(buildCommand).tool = "cmake --build"
                  /\ Get(buildCommand).config = Some(ExpectedBuildType)
    /\ At("build") # {} => BuildReached

C11_Witness ==
    /\ BuildReached
    /\ platform = "win32" /\ arch = "x64"
    /\ Get(info).generator = Ninja
    /\ Get(buildCommand).tool = "ninja -C"
    /\ Get(buildCommand).dir = Get(info).buildDir
    /\ Cardinality(At("build")) = 1

====
